---- MODULE Spec2Model ----
(***************************************************************************)
(* A model of the Takahe operator charm (src/src/charm.py): the secret     *)
(* manager, the database binding resolver, the environment composer, the   *)
(* reconciler (_replan) and the status aggregator, driven by the events    *)
(* the charm observes.  One action is one whole handler run, followed by   *)
(* the collect-status evaluation the framework performs after every hook.  *)
(*                                                                         *)
(* Strings the code inspects character by character (the media-uri, the    *)
(* generated keys) are tuples of one-character strings; the others are     *)
(* TLA+ strings.  The letter e-macron of the source is written "e", and    *)
(* the backquotes of one status message are left out.                      *)
(***************************************************************************)
EXTENDS Naturals, Sequences, FiniteSets, TLC

(***************************************************************************)
(* Bounds of the model.                                                    *)
(***************************************************************************)
\* the number of secret ids the secret store can hand out
MaxSecrets == 2
\* the number of revisions a secret may hold before rotation is cut off
MaxRevisions == 2
\* the number of distinct outcomes of the random source
MaxSeeds == 3
\* the deferred events that may be pending, besides the one being handled,
\* when a reconcile handler runs
MaxPending == 1

(***************************************************************************)
(* Program constants.                                                      *)
(***************************************************************************)
\* _generate_secret_key(length=128)
DefaultKeyLength == 128
\* the length of the initial password of add-superuser
PasswordLength == 32
\* len(string.ascii_uppercase + string.digits)
AlphabetSize == 36

DB_NAME == "takahe"
web_service_name == "takahe-web"
background_service_name == "takahe-background"
Containers == {web_service_name, background_service_name}

\* self.container_details: (summary, command, update_version)
container_details(name) ==
    IF name = web_service_name
    THEN [summary |-> "Takahe web server",
          command |-> "gunicorn takahe.wsgi:application -b 0.0.0.0:8001 --access-logfile access.log --error-logfile error.log",
          update_version |-> FALSE]
    ELSE [summary |-> "Takahe background service",
          command |-> "python3 manage.py runstator",
          update_version |-> TRUE]

(***************************************************************************)
(* Character strings.                                                      *)
(***************************************************************************)
\* string.ascii_uppercase + string.digits
Alphabet ==
    << "A", "B", "C", "D", "E", "F", "G", "H", "I", "J", "K", "L", "M",
       "N", "O", "P", "Q", "R", "S", "T", "U", "V", "W", "X", "Y", "Z",
       "0", "1", "2", "3", "4", "5", "6", "7", "8", "9" >>

\* str.startswith(prefix)
StartsWith(s, prefix) ==
    /\ Len(s) >= Len(prefix)
    /\ SubSeq(s, 1, Len(prefix)) = prefix

LOCAL_SCHEME == << "l", "o", "c", "a", "l", ":", "/", "/" >>
S3_SCHEME == << "s", "3", ":", "/", "/" >>
GCS_SCHEME == << "g", "c", "s", ":", "/", "/" >>

\* the values of the media-uri option the model draws from
MediaUris ==
    { LOCAL_SCHEME,
      LOCAL_SCHEME \o << "m" >>,
      S3_SCHEME \o << "b" >>,
      GCS_SCHEME,
      << "f", "t", "p", ":", "/", "/" >>,
      << "s", "3", ":", "/" >> }

\* self.config
Config(media, domain) == ("media-uri" :> media) @@ ("main-domain" :> domain)

\* the values of the main-domain option; "" is the unset option
MainDomains == { "", "example.com", "aotearoa.dev" }

(***************************************************************************)
(* The random source: random.SystemRandom().choice.  A seed stands for one *)
(* outcome of the source; Choice is the index drawn at the i-th call.      *)
(***************************************************************************)
Seeds == 1 .. MaxSeeds

Choice(seed, i) == ((seed * 7 + i * (seed + 2)) % AlphabetSize) + 1

\* _generate_secret_key under a mutation: one character short
GenerateShortKey(length, seed) ==
    [i \in 1 .. (length - 1) |-> Alphabet[Choice(seed, i)]]

\* _generate_secret_key
generate_secret_key(length, seed) ==
    [i \in 1 .. length |-> Alphabet[Choice(seed, i)]]

(***************************************************************************)
(* The state.                                                              *)
(***************************************************************************)
VARIABLES
    leader,         \* self.unit.is_leader()
    peers,          \* the takahe-peer relation exists (self.peers)
    peerData,       \* self.peers.data[self.app]: at most the key "secret-id"
    secrets,        \* the secret store: id -> the revisions of the secret
    config,         \* self.config: media-uri and main-domain
    storages,       \* self.model.storages: name -> attached instances
    database,       \* the database relation: the credentials secret as this
                    \* unit reads it (the revision it tracks), the latest
                    \* revision of that secret, and the endpoints
    ingressReady,   \* self.ingress.is_ready()
    canConnect,     \* per container: the supervisor answers
    plan,           \* per container: the services of the active plan
    active,         \* per container: its service is running
    unitStatus,     \* the status surfaced after the hook
    handlerStatus,  \* the last value the handler assigned to self.unit.status
    collected,      \* the statuses added by the last collect-status
    deferred,       \* the events deferred for re-delivery
    calls,          \* the supervisor calls made by the last handler run
    actionResult,   \* the outcome of the last action
    version,        \* the workload version set by set_workload_version
    reconciled,     \* per container: the _replan calls since the inputs changed
    delivered,      \* the once-only lifecycle events Juju has delivered
    last            \* the event handled by the last step and how it ended

vars ==
    << leader, peers, peerData, secrets, config, storages, database,
       ingressReady, canConnect, plan, active, unitStatus, handlerStatus,
       collected, deferred, calls, actionResult, version, reconciled,
       delivered, last >>

inputVars ==
    << leader, peers, peerData, secrets, config, storages, database,
       ingressReady, canConnect >>

SecretIds == 1 .. MaxSecrets
StorageNames == { "media-cache", "local-media" }
NoData == << >>

(***************************************************************************)
(* The secret store (ops.Model.get_secret, Unit.add_secret,                *)
(* Secret.set_content, Secret.get_content).                                *)
(***************************************************************************)
\* get_secret(id=...) does not raise SecretNotFoundError
SecretFound(id) == id \in SecretIds /\ secrets[id] # << >>

\* get_content without a refresh, under a mutation: the revision first seen
FirstContent(id) == secrets[id][1]

\* get_content(refresh=True): the latest revision
LatestContent(id) == secrets[id][Len(secrets[id])]

\* the keys held by any revision of any secret
KnownKeys ==
    UNION { { secrets[id][r]["takahe-secret-key"] : r \in 1 .. Len(secrets[id]) } :
            id \in SecretIds }

\* the ids the store has handed out, here or to another replica
UsedIds ==
    { id \in SecretIds : secrets[id] # << >> }
        \cup { peerData[k] : k \in DOMAIN peerData }

FreeIds == SecretIds \ UsedIds

(***************************************************************************)
(* Database Binding Resolver: the dsn property.  secret.meta.get_content()  *)
(* is called without refresh: it returns the revision this unit tracks.    *)
(***************************************************************************)
dsn ==
    IF ~database.relation
    THEN ""
    ELSE IF database.credentials = NoData
    THEN ""
    ELSE "postgresql://" \o database.credentials.username \o ":"
            \o database.credentials.password \o "@" \o database.endpoints
            \o "/" \o DB_NAME \o "?connect_timeout=10"

(***************************************************************************)
(* Environment Composer: the _takahe_env property.  The result is the      *)
(* mapping, or the exception that escapes the property.                    *)
(***************************************************************************)
StorageLocation(name) == "/var/lib/juju/storage/" \o name \o "/0"

\* self.model.storages[name][0]: KeyError for an unknown name, IndexError
\* when nothing is attached
StorageLookup(name) ==
    IF name \notin DOMAIN storages THEN [exc |-> "KeyError", value |-> ""]
    ELSE IF storages[name] = 0 THEN [exc |-> "IndexError", value |-> ""]
    ELSE [exc |-> "none", value |-> StorageLocation(name)]

BaseEnv(key) ==
    [ TAKAHE_DATABASE_SERVER |-> dsn,
      TAKAHE_SECRET_KEY |-> key,
      TAKAHE_MEDIA_BACKEND |-> config["media-uri"],
      TAKAHE_MAIN_DOMAIN |-> config["main-domain"],
      TAKAHE_EMAIL_FROM |-> "takahe@" \o config["main-domain"],
      TAKAHE_AUTO_ADMIN_EMAIL |-> "takahe@" \o config["main-domain"],
      TAKAKE_USE_PROXY_HEADERS |-> "True" ]

takahe_env ==
    IF ~peers THEN [exc |-> "none", env |-> NoData]
    ELSE IF "secret-id" \notin DOMAIN peerData THEN [exc |-> "none", env |-> NoData]
    ELSE IF ~SecretFound(peerData["secret-id"]) THEN [exc |-> "none", env |-> NoData]
    ELSE LET key == LatestContent(peerData["secret-id"])["takahe-secret-key"]
         IN  IF config["media-uri"] = LOCAL_SCHEME
             THEN IF StorageLookup("local-media").exc # "none"
                  THEN [exc |-> StorageLookup("local-media").exc, env |-> NoData]
                  ELSE [exc |-> "none",
                        env |-> BaseEnv(key) @@
                                [ TAKAHE_MEDIA_ROOT |-> StorageLookup("local-media").value,
                                  TAKAHE_MEDIA_URL |-> "https://example.com/" ]]
             ELSE [exc |-> "none", env |-> BaseEnv(key)]

(***************************************************************************)
(* Status Aggregator: _on_collect_status, and the framework's choice of    *)
(* the status to surface (the highest priority, the first added on a tie). *)
(***************************************************************************)
ActiveStatus == [name |-> "active", message |-> ""]
BlockedStatus(msg) == [name |-> "blocked", message |-> msg]
WaitingStatus(msg) == [name |-> "waiting", message |-> msg]
MaintenanceStatus(msg) == [name |-> "maintenance", message |-> msg]

When(cond, status) == IF cond THEN << status >> ELSE << >>

\* the scheme test under a mutation: the name of the scheme is compared
\* without its separator
MediaUriPrefixOnly ==
    \/ StartsWith(config["media-uri"], << "l", "o", "c", "a", "l", ":" >>)
    \/ StartsWith(config["media-uri"], << "s", "3", ":" >>)
    \/ StartsWith(config["media-uri"], << "g", "c", "s", ":" >>)

\* the scheme test under a mutation: only the remote backends are accepted
MediaUriValidRemoteOnly ==
    \/ StartsWith(config["media-uri"], S3_SCHEME)
    \/ StartsWith(config["media-uri"], GCS_SCHEME)

MediaUriValid ==
    \/ StartsWith(config["media-uri"], LOCAL_SCHEME)
    \/ StartsWith(config["media-uri"], S3_SCHEME)
    \/ StartsWith(config["media-uri"], GCS_SCHEME)

ConfigStatuses ==
    When(~MediaUriValid, BlockedStatus("Invalid 'media-uri' config value."))
    \o (IF config["main-domain"] = ""
        THEN << BlockedStatus("Please set the main domain with juju config") >>
        ELSE When(config["main-domain"] = "example.com",
                  BlockedStatus("example.com is not a valid main domain")))

StorageStatuses ==
    IF DOMAIN storages # {}
    THEN When("media-cache" \notin DOMAIN storages, WaitingStatus("Waiting for media-cache"))
         \o When(config["media-uri"] = LOCAL_SCHEME /\ "local-media" \notin DOMAIN storages,
                 WaitingStatus("Waiting for local-media"))
    ELSE << WaitingStatus("Waiting for storage") >>

PeerStatuses ==
    IF peers
    THEN IF "secret-id" \notin DOMAIN peerData
         THEN << BlockedStatus("Waiting for peer secrets") >>
         ELSE When(~SecretFound(peerData["secret-id"]),
                   BlockedStatus("Waiting for secret key"))
    ELSE << WaitingStatus("Waiting for peer relation") >>

DatabaseStatuses == When(dsn = "", BlockedStatus("Waiting for database relation"))

IngressStatuses == When(~ingressReady, WaitingStatus("Waiting for ingress."))

\* _on_collect_status under a mutation: it returns at the first failing check
CollectFirstFailureOnly ==
    LET all == ConfigStatuses \o StorageStatuses \o PeerStatuses
                 \o DatabaseStatuses \o IngressStatuses
    IN  << ActiveStatus >> \o (IF all = << >> THEN << >> ELSE << all[1] >>)

on_collect_status ==
    << ActiveStatus >> \o ConfigStatuses \o StorageStatuses \o PeerStatuses
        \o DatabaseStatuses \o IngressStatuses

\* StatusBase._priority
Priority(status) ==
    CASE status.name = "error" -> 5
      [] status.name = "blocked" -> 4
      [] status.name = "maintenance" -> 3
      [] status.name = "waiting" -> 2
      [] status.name = "active" -> 1
      [] OTHER -> 0

\* the framework's choice under a mutation: the first status added
FirstCollected(statuses) == statuses[1]

\* the first status of the highest priority
HighestPriority(statuses) ==
    LET best == CHOOSE i \in 1 .. Len(statuses) :
                    /\ \A j \in 1 .. Len(statuses) :
                          Priority(statuses[j]) <= Priority(statuses[i])
                    /\ \A j \in 1 .. (i - 1) :
                          Priority(statuses[j]) < Priority(statuses[i])
    IN  statuses[best]

(***************************************************************************)
(* Reconciler: _replan and workload_version.  A handler run threads a      *)
(* record m through its calls: the plans, the running services, the call   *)
(* log, the status it assigned, the workload version, whether it deferred  *)
(* its event, and the exception that is propagating ("none" if none).      *)
(***************************************************************************)
Unset == [name |-> "unset", message |-> ""]

\* event.fail(msg), event.set_results(results), and a hook that is no action
Failed(msg) == [status |-> "failed", message |-> msg, results |-> NoData]
Completed(results) == [status |-> "completed", message |-> "", results |-> results]
NoAction == [status |-> "none", message |-> "", results |-> NoData]
NoRun == [runs |-> 0, applies |-> 0, ownOnly |-> FALSE]

Begin ==
    [ plan |-> plan, active |-> active, calls |-> << >>, status |-> Unset,
      version |-> version, reconciled |-> reconciled, defer |-> FALSE,
      exc |-> "none", raised |-> << >>, statuses |-> << >>, unawaited |-> FALSE,
      execEnv |-> << >> ]

\* a supervisor call raises exc: it propagates until a handler catches it
Raise(m, op, container, exc) ==
    [m EXCEPT !.exc = exc,
              !.raised = Append(@, [op |-> op, container |-> container, exc |-> exc])]

\* self.unit.status = status
SetStatus(m, status) ==
    [m EXCEPT !.status = status, !.statuses = Append(@, status)]

\* an except clause of a handler: the status is assigned, the event deferred
Catch(m, status) ==
    [SetStatus(m, status) EXCEPT !.exc = "none", !.defer = TRUE]

Call(op, container) == [op |-> op, container |-> container]

\* Service.to_dict(): an empty environment is left out
ServiceDict(name, env) ==
    LET details == container_details(name)
        base == [ override |-> "replace", summary |-> details.summary,
                  command |-> details.command, startup |-> "enabled" ]
    IN  IF env = NoData THEN base ELSE base @@ [environment |-> env]

\* layer.to_dict().get("services")
NewServices(name, env) == (name :> ServiceDict(name, env))

\* add_layer under a mutation: the layer replaces the whole plan
AddLayerReplacingPlan(services, name, env) == NewServices(name, env)

\* container.add_layer(name, layer, combine=True), override: replace
AddLayer(services, name, env) ==
    [ s \in (DOMAIN services) \cup {name} |->
        IF s = name THEN ServiceDict(name, env) ELSE services[s] ]

\* the run of consecutive completed _replan calls on a container since the
\* inputs last changed: how many there were (2 stands for two or more), how
\* many of them submitted the layer, and whether the plan held at most the
\* container's own service when the run began
NextRun(prev, applied, services, name) ==
    IF prev.runs >= 1
    THEN [runs |-> 2, ownOnly |-> prev.ownOnly,
          applies |-> IF applied /\ prev.applies < 2 THEN prev.applies + 1 ELSE prev.applies]
    ELSE [runs |-> 1, ownOnly |-> (DOMAIN services) \subseteq {name},
          applies |-> IF applied THEN 1 ELSE 0]

\* what the version command does: it prints the version, it fails with
\* ExecError (APIError is handled by the same clause), or the supervisor
\* stops answering before the command is sent
VersionOutcomes == { "1.2.3", "ExecError", "ConnectionError" }

\* the workload_version property; out is what the inspection command does
workload_version(m, out) ==
    LET sent == [m EXCEPT !.calls = Append(@, Call("exec version", background_service_name))]
    IN  IF ~canConnect[background_service_name] \/ out = "ConnectionError"
        THEN Raise(sent, "exec version", background_service_name, "ConnectionError")
        ELSE IF out \in {"ExecError", "APIError"}
        THEN [sent EXCEPT !.version = "unknown",
                          !.raised = Append(@, [op |-> "exec version",
                                                container |-> background_service_name,
                                                exc |-> out])]
        ELSE [sent EXCEPT !.version = out]

\* the comparison of _replan under a mutation: the layer is never submitted
PlanNeverDiffers(services, name, env) == FALSE

\* the comparison of _replan under a mutation: the layer is always submitted
PlanAlwaysDiffers(services, name, env) == TRUE

\* services != new_layer.get("services")
PlanDiffers(services, name, env) == services # NewServices(name, env)

\* _replan(container); startOk: the service starts on replan; out: what the
\* version command does
Replan(m, name, startOk, out) ==
    LET composed == takahe_env
        services == m.plan[name]
    IN  IF composed.exc # "none"
        THEN [Raise(m, "compose", name, composed.exc) EXCEPT !.reconciled[name] = NoRun]
        ELSE IF ~canConnect[name]
        THEN [Raise(m, "get_plan", name, "ConnectionError") EXCEPT
                       !.calls = Append(@, Call("get_plan", name)),
                       !.reconciled[name] = NoRun]
        ELSE LET differs == PlanDiffers(services, name, composed.env)
                 run == NextRun(m.reconciled[name], differs, services, name)
                 read == [m EXCEPT !.calls = Append(@, Call("get_plan", name)),
                                   !.reconciled[name] = run]
                 added == [read EXCEPT
                              !.plan[name] = AddLayer(services, name, composed.env),
                              !.calls = @ \o << Call("add_layer", name), Call("replan", name) >>]
             IN  IF differs /\ ~startOk
                 THEN [Raise(added, "replan", name, "ChangeError") EXCEPT
                               !.active[name] = FALSE]
                 ELSE LET applied == IF differs
                                      THEN [added EXCEPT !.active[name] = TRUE]
                                      ELSE read
                      IN  IF container_details(name).update_version
                          THEN workload_version(applied, out)
                          ELSE applied

\* What the supervisor does during a hook is drawn only where the handler
\* can observe it: the start of a service when replan is called, the version
\* command when it is sent.
StartChoices(name) ==
    IF /\ canConnect[name]
       /\ takahe_env.exc = "none"
       /\ PlanDiffers(plan[name], name, takahe_env.env)
    THEN BOOLEAN
    ELSE { TRUE }

VersionChoices(startBackground) ==
    IF canConnect[background_service_name] /\ takahe_env.exc = "none" /\ startBackground
    THEN VersionOutcomes
    ELSE { "1.2.3" }

(***************************************************************************)
(* The end of a hook: what the handler did is kept, and unless an          *)
(* exception escaped the handler the framework evaluates collect-status    *)
(* and surfaces the status of the highest priority.                        *)
(***************************************************************************)
ErrorStatus == [name |-> "error", message |-> "hook failed"]

Surface ==
    /\ collected' = on_collect_status'
    /\ unitStatus' = HighestPriority(collected')

\* the framework re-emits the deferred events before it handles a new one;
\* a handler runs for a new event or for the re-delivery of a pending one
Dispatch(event) == Cardinality(deferred \ {event}) < MaxPending

\* a handler run that does not defer again drops the event from the
\* deferred ones
Commit(m, event) ==
    /\ plan' = m.plan
    /\ active' = m.active
    /\ calls' = m.calls
    /\ handlerStatus' = m.status
    /\ version' = m.version
    /\ reconciled' = m.reconciled
    /\ last' = [event |-> event, exc |-> m.exc, deferred |-> m.defer,
                 raised |-> m.raised, statuses |-> m.statuses,
                 unawaited |-> m.unawaited, execEnv |-> m.execEnv]
    /\ IF m.exc = "none"
       THEN /\ deferred' = (IF m.defer THEN deferred \cup {event} ELSE deferred \ {event})
            /\ Surface
       ELSE /\ deferred' = deferred
            /\ collected' = << >>
            /\ unitStatus' = ErrorStatus

(***************************************************************************)
(* _on_pebble_ready                                                        *)
(***************************************************************************)
PebbleReadyEvent(name) ==
    IF name = web_service_name
    THEN "takahe_web_pebble_ready"
    ELSE "takahe_background_pebble_ready"

\* _on_pebble_ready under a mutation: without a composed environment the
\* reconcile is skipped and the event deferred
PebbleReadyWaitingForKey(name, startOk, out) ==
    LET r == Replan(Begin, name, startOk, out)
    IN  IF takahe_env.exc = "none" /\ takahe_env.env = NoData
        THEN Catch(Begin, WaitingStatus("Waiting for secret key"))
        ELSE IF r.exc = "ConnectionError"
        THEN Catch(r, WaitingStatus("Unable to connect to " \o name))
        ELSE IF r.exc = "ChangeError"
        THEN Catch(r, BlockedStatus("Could not start " \o name \o ": change error"))
        ELSE r

\* _on_pebble_ready under a mutation: a connection error is not deferred
PebbleReadyWithoutDefer(name, startOk, out) ==
    LET r == Replan(Begin, name, startOk, out)
    IN  IF r.exc = "ConnectionError"
        THEN [SetStatus(r, WaitingStatus("Unable to connect to " \o name)) EXCEPT
                       !.exc = "none"]
        ELSE IF r.exc = "ChangeError"
        THEN Catch(r, BlockedStatus("Could not start " \o name \o ": change error"))
        ELSE r

on_pebble_ready(name, startOk, out) ==
    LET r == Replan(Begin, name, startOk, out)
    IN  IF r.exc = "ConnectionError"
        THEN Catch(r, WaitingStatus("Unable to connect to " \o name))
        ELSE IF r.exc = "ChangeError"
        THEN Catch(r, BlockedStatus("Could not start " \o name \o ": change error"))
        ELSE r

PebbleReady ==
    \E name \in Containers :
      \E startOk \in StartChoices(name) :
        \E out \in (IF container_details(name).update_version
                     THEN VersionChoices(startOk) ELSE { "1.2.3" }) :
        /\ Dispatch(PebbleReadyEvent(name))
        /\ UNCHANGED << inputVars, delivered >>
        /\ actionResult' = NoAction
        /\ Commit(on_pebble_ready(name, startOk, out), PebbleReadyEvent(name))

(***************************************************************************)
(* _reset_services_or_defer, the handler of secret-changed, config-changed *)
(* and endpoints-changed: the background container, then the web           *)
(* container, each under its own except clauses.                           *)
(***************************************************************************)
\* the except clauses under a mutation: the status is assigned, the event
\* is not deferred
HandledWithoutDefer(r, name, blocked) ==
    IF r.exc = "ConnectionError"
    THEN [SetStatus(r, WaitingStatus("Unable to connect to " \o name)) EXCEPT !.exc = "none"]
    ELSE IF r.exc = "ChangeError"
    THEN [SetStatus(r, BlockedStatus(blocked \o name \o ": change error"))
             EXCEPT !.exc = "none"]
    ELSE r

\* the except clauses that follow a _replan(container) call
Handled(r, name, blocked) ==
    IF r.exc = "ConnectionError"
    THEN Catch(r, WaitingStatus("Unable to connect to " \o name))
    ELSE IF r.exc = "ChangeError"
    THEN Catch(r, BlockedStatus(blocked \o name \o ": change error"))
    ELSE r

\* the second half under a mutation: the web container is skipped once the
\* event is deferred
ThenWebUnlessDeferred(m, startOk, out) ==
    IF m.exc # "none" \/ m.defer
    THEN m
    ELSE Handled(Replan(m, web_service_name, startOk, out),
                 web_service_name, "Could not start ")

\* the second half of the two-container handlers: _replan of the web
\* container, unless an exception is already propagating
ThenWeb(m, startOk, out) ==
    IF m.exc # "none"
    THEN m
    ELSE Handled(Replan(m, web_service_name, startOk, out),
                 web_service_name, "Could not start ")

\* the runs counted in reconciled are runs of consecutive pebble-ready
\* reconciles: a reconcile by another handler ends them
Untracked(m) == [m EXCEPT !.reconciled = [name \in Containers |-> NoRun]]

reset_services_or_defer(startBackground, startWeb, out) ==
    ThenWeb(Handled(Replan(Begin, background_service_name, startBackground, out),
                    background_service_name, "Could not start "),
            startWeb, out)

ResetEvents == { "secret_changed", "config_changed", "database_endpoints_changed" }

ResetServices ==
    \E event \in ResetEvents, startBackground \in StartChoices(background_service_name),
       startWeb \in StartChoices(web_service_name) :
      \E out \in VersionChoices(startBackground) :
        /\ Dispatch(event)
        /\ UNCHANGED << inputVars, delivered >>
        /\ actionResult' = NoAction
        /\ Commit(Untracked(reset_services_or_defer(startBackground, startWeb, out)), event)

(***************************************************************************)
(* The migration sub-flow: _on_upgrade_charm and _on_database_created.     *)
(***************************************************************************)
\* what wait_output() of the migrate command does: it returns, the command
\* exits non-zero (ExecError), or the change fails (ChangeError)
MigrateOutcomes == { "ok", "ExecError", "ChangeError" }

\* the migration is observed when the command is sent; its outcome decides
\* whether the background container is reconciled in the same try block
MigrateChoices ==
    IF canConnect[background_service_name] /\ takahe_env.exc = "none"
    THEN MigrateOutcomes
    ELSE { "ok" }

StartAfter(migrate) ==
    IF migrate = "ok" THEN StartChoices(background_service_name) ELSE { TRUE }

\* container.exec(migrate, working_dir=..., environment=self._takahe_env)
\* followed by wait_output() and, in the same try block, _replan(container)
MigrateThenReplan(m, migrate, startOk, out) ==
    IF takahe_env.exc # "none"
    THEN Raise(m, "compose", background_service_name, takahe_env.exc)
    ELSE LET sent == [m EXCEPT !.calls =
                         Append(@, Call("exec migrate", background_service_name))]
             waited == [sent EXCEPT !.calls =
                           Append(@, Call("wait migrate", background_service_name))]
         IN  IF ~canConnect[background_service_name]
             THEN Raise(sent, "exec migrate", background_service_name, "ConnectionError")
             ELSE IF migrate # "ok"
             THEN Raise(waited, "wait migrate", background_service_name, migrate)
             ELSE Replan(waited, background_service_name, startOk, out)

\* lines 415-424: the first exec is not waited for, so its command may still
\* be running (lingering) while the handler goes on
UpgradeTry(m, migrate, lingering, startOk, out) ==
    LET sent == [m EXCEPT !.calls =
                     Append(@, Call("exec migrate", background_service_name))]
    IN  IF ~canConnect[background_service_name]
        THEN Raise(sent, "exec migrate", background_service_name, "ConnectionError")
        ELSE MigrateThenReplan([sent EXCEPT !.unawaited = lingering],
                               migrate, startOk, out)

on_upgrade_charm(migrate, lingering, startBackground, startWeb, out) ==
    LET begun == SetStatus(Begin, MaintenanceStatus("Upgrading database tables..."))
        tried == Handled(UpgradeTry(begun, migrate, lingering, startBackground, out),
                         background_service_name, "Could not upgrade DB on ")
    IN  IF tried.exc # "none"
        THEN tried
        ELSE ThenWeb(SetStatus(tried, MaintenanceStatus("Restarting service...")),
                     startWeb, out)

on_database_created(migrate, startBackground, startWeb, out) ==
    LET begun == SetStatus(Begin, MaintenanceStatus("Creating database tables..."))
        tried == Handled(MigrateThenReplan(begun, migrate, startBackground, out),
                         background_service_name, "Could not initialise DB on ")
    IN  IF tried.exc # "none"
        THEN tried
        ELSE ThenWeb(SetStatus(tried, MaintenanceStatus("Starting service...")),
                     startWeb, out)

UpgradeCharm ==
    \E migrate \in MigrateChoices,
       lingering \in (IF canConnect[background_service_name] THEN BOOLEAN ELSE { FALSE }),
       startWeb \in StartChoices(web_service_name) :
      \E startBackground \in StartAfter(migrate) :
        \E out \in (IF migrate = "ok" THEN VersionChoices(startBackground) ELSE { "1.2.3" }) :
        /\ Dispatch("upgrade_charm")
        /\ UNCHANGED << inputVars, delivered >>
        /\ actionResult' = NoAction
        /\ Commit(Untracked(on_upgrade_charm(migrate, lingering, startBackground,
                                              startWeb, out)),
                  "upgrade_charm")

\* database-created is emitted when the relation holds the credentials
DatabaseCreated ==
    \E migrate \in MigrateChoices, startWeb \in StartChoices(web_service_name) :
      \E startBackground \in StartAfter(migrate) :
        \E out \in (IF migrate = "ok" THEN VersionChoices(startBackground) ELSE { "1.2.3" }) :
        /\ database.relation
        /\ database.credentials # NoData
        /\ Dispatch("database_created")
        /\ UNCHANGED << inputVars, delivered >>
        /\ actionResult' = NoAction
        /\ Commit(Untracked(on_database_created(migrate, startBackground, startWeb, out)),
                  "database_created")

(***************************************************************************)
(* Secret Manager: _on_install, _on_peer_relation_created,                 *)
(* _add_secret_key and _on_cycle_secret_key.  The results name the new     *)
(* secret store and peer data.                                             *)
(***************************************************************************)
\* the id Unit.add_secret hands out (0 once the store has no id left, which
\* the actions exclude)
NewSecretId ==
    IF FreeIds = {}
    THEN 0
    ELSE CHOOSE id \in FreeIds : \A other \in FreeIds : id <= other

\* Unit.add_secret(content): a secret of one revision under a new id
AddSecret(id, content) ==
    [i \in SecretIds |-> IF i = id THEN << content >> ELSE secrets[i]]

\* the random source does not repeat a key the store holds, and the store
\* has an id left
CanCreate(seed) ==
    /\ FreeIds # {}
    /\ generate_secret_key(DefaultKeyLength, seed) \notin KnownKeys

SecretContent(key) == ("takahe-secret-key" :> key)

Untouched == [secrets |-> secrets, peerData |-> peerData]

add_secret_key(seed) ==
    IF ~peers
    THEN Untouched
    ELSE [ secrets |-> AddSecret(NewSecretId,
                                 SecretContent(generate_secret_key(DefaultKeyLength, seed))),
           peerData |-> ("secret-id" :> NewSecretId) @@ peerData ]

\* _on_install under a mutation: the leader check is missing
InstallWithoutLeaderCheck(seed) ==
    IF ~peers THEN Untouched ELSE add_secret_key(seed)

on_install(seed) ==
    IF ~leader THEN Untouched
    ELSE IF ~peers THEN Untouched
    ELSE add_secret_key(seed)

on_peer_relation_created(seed) ==
    IF ~leader THEN Untouched ELSE add_secret_key(seed)

\* the random source does not repeat a key the store holds, and the secret
\* has room for a revision
CanRotate(seed) ==
    /\ Len(secrets[peerData["secret-id"]]) < MaxRevisions
    /\ generate_secret_key(DefaultKeyLength, seed) \notin KnownKeys

\* the preconditions of _on_cycle_secret_key all hold
CycleAllowed ==
    /\ leader
    /\ peers
    /\ "secret-id" \in DOMAIN peerData
    /\ SecretFound(peerData["secret-id"])

\* secret.set_content: a new revision, the earlier ones kept
SetContent(id, content) == [secrets EXCEPT ![id] = Append(@, content)]

\* _on_cycle_secret_key under a mutation: the leader check is missing
CycleWithoutLeaderCheck(seed) ==
    IF ~peers
    THEN [secrets |-> secrets, result |-> Failed("No need to cycle - we haven't even started up!")]
    ELSE IF "secret-id" \notin DOMAIN peerData
    THEN [secrets |-> secrets,
          result |-> Failed("No need to cycle - have not created the initial secret yet!")]
    ELSE IF ~SecretFound(peerData["secret-id"])
    THEN [secrets |-> secrets,
          result |-> Failed("No need to cycle - initial secret making in progress!")]
    ELSE [secrets |-> SetContent(peerData["secret-id"],
                                 SecretContent(generate_secret_key(DefaultKeyLength, seed))),
          result |-> Completed([result |-> "success"])]

\* _on_cycle_secret_key under a mutation: the peer relation is checked first
CycleChecksPeersFirst(seed) ==
    IF ~peers
    THEN [secrets |-> secrets, result |-> Failed("No need to cycle - we haven't even started up!")]
    ELSE IF ~leader
    THEN [secrets |-> secrets, result |-> Failed("Please run this action on the leader unit.")]
    ELSE CycleWithoutLeaderCheck(seed)

\* _on_cycle_secret_key under a mutation: the content is replaced in place
CycleReplacingRevision(seed) ==
    IF ~leader
    THEN [secrets |-> secrets, result |-> Failed("Please run this action on the leader unit.")]
    ELSE IF ~CycleAllowed
    THEN CycleWithoutLeaderCheck(seed)
    ELSE [secrets |-> [secrets EXCEPT ![peerData["secret-id"]] =
                          << SecretContent(generate_secret_key(DefaultKeyLength, seed)) >>],
          result |-> Completed([result |-> "success"])]

on_cycle_secret_key(seed) ==
    IF ~leader
    THEN [secrets |-> secrets, result |-> Failed("Please run this action on the leader unit.")]
    ELSE IF ~peers
    THEN [secrets |-> secrets, result |-> Failed("No need to cycle - we haven't even started up!")]
    ELSE IF "secret-id" \notin DOMAIN peerData
    THEN [secrets |-> secrets,
          result |-> Failed("No need to cycle - have not created the initial secret yet!")]
    ELSE IF ~SecretFound(peerData["secret-id"])
    THEN [secrets |-> secrets,
          result |-> Failed("No need to cycle - initial secret making in progress!")]
    ELSE [secrets |-> SetContent(peerData["secret-id"],
                                 SecretContent(generate_secret_key(DefaultKeyLength, seed))),
          result |-> Completed([result |-> "success"])]

NoRuns == [name \in Containers |-> NoRun]

\* a handler that calls no supervisor and assigns no status; a change of the
\* secret store or of the peer data is a change of the reconciler's inputs
Quiet(event) ==
    /\ UNCHANGED << leader, peers, config, storages, database, ingressReady, canConnect >>
    /\ Commit([Begin EXCEPT !.reconciled =
                    IF secrets' = secrets /\ peerData' = peerData THEN @ ELSE NoRuns],
              event)

\* install is the first hook of a unit and is delivered once
Install ==
    \E seed \in Seeds :
        /\ "install" \notin delivered
        /\ delivered' = delivered \cup {"install"}
        /\ (leader /\ peers) => CanCreate(seed)
        /\ secrets' = on_install(seed).secrets
        /\ peerData' = on_install(seed).peerData
        /\ actionResult' = NoAction
        /\ Quiet("install")

\* relation-created is delivered once, after install, when the relation exists
PeerRelationCreated ==
    \E seed \in Seeds :
        /\ peers
        /\ "install" \in delivered
        /\ "takahe_peer_relation_created" \notin delivered
        /\ delivered' = delivered \cup {"takahe_peer_relation_created"}
        /\ leader => CanCreate(seed)
        /\ secrets' = on_peer_relation_created(seed).secrets
        /\ peerData' = on_peer_relation_created(seed).peerData
        /\ actionResult' = NoAction
        /\ Quiet("takahe_peer_relation_created")

CycleSecretKey ==
    \E seed \in Seeds :
        /\ CycleAllowed => CanRotate(seed)
        /\ secrets' = on_cycle_secret_key(seed).secrets
        /\ actionResult' = on_cycle_secret_key(seed).result
        /\ peerData' = peerData
        /\ delivered' = delivered
        /\ Quiet("cycle_secret_key_action")

(***************************************************************************)
(* _on_add_superuser_action                                                *)
(***************************************************************************)
\* what exec and wait_output of the createsuperuser command do: the command
\* succeeds, exits non-zero (ExecError), or its change fails (ChangeError)
SuperuserOutcomes == { "ok", "ExecError", "ChangeError" }

Usernames == { "USER" }
Emails == { "EMAIL" }

\* the environment given to createsuperuser: a copy of the composed one
\* with the three DJANGO_SUPERUSER_ variables
SuperuserEnv(username, email, password) ==
    [ DJANGO_SUPERUSER_USERNAME |-> username,
      DJANGO_SUPERUSER_PASSWORD |-> password,
      DJANGO_SUPERUSER_EMAIL |-> email ] @@ takahe_env.env

\* the action under a mutation: the result is another generated password
SuperuserWithOtherPassword(username, email, seed, outcome) ==
    LET password == generate_secret_key(PasswordLength, seed)
        sent == [Begin EXCEPT
                    !.calls = Append(@, Call("exec createsuperuser",
                                             background_service_name)),
                    !.execEnv = SuperuserEnv(username, email, password)]
    IN  [run |-> sent,
         result |-> Completed("initial-password" :>
                                   generate_secret_key(PasswordLength, seed + 1))]

\* the run of the handler and the result of the action
on_add_superuser_action(username, email, seed, outcome) ==
    LET password == generate_secret_key(PasswordLength, seed)
        sent == [Begin EXCEPT
                    !.calls = Append(@, Call("exec createsuperuser",
                                             background_service_name)),
                    !.execEnv = SuperuserEnv(username, email, password)]
    IN  IF takahe_env.exc # "none"
        THEN [run |-> Raise(Begin, "compose", background_service_name, takahe_env.exc),
              result |-> NoAction]
        ELSE IF ~canConnect[background_service_name]
        THEN [run |-> [Raise(sent, "exec createsuperuser", background_service_name,
                             "ConnectionError") EXCEPT !.exc = "none"],
              result |-> Failed("Unable to connect to container.")]
        ELSE IF outcome = "ExecError"
        THEN [run |-> [Raise(sent, "exec createsuperuser", background_service_name,
                             "ExecError") EXCEPT !.exc = "none"],
              result |-> Failed("Unable to add user.")]
        ELSE IF outcome = "ChangeError"
        THEN [run |-> Raise(sent, "exec createsuperuser", background_service_name,
                            "ChangeError"),
              result |-> NoAction]
        ELSE [run |-> sent,
              result |-> Completed("initial-password" :> password)]

\* an exception that escapes an action handler fails the action; the unit
\* does not enter the error state and no status is collected
ActionCrashed(m, event) ==
    /\ UNCHANGED << plan, active, unitStatus, handlerStatus, collected, deferred,
                    version, reconciled >>
    /\ calls' = m.calls
    /\ last' = [event |-> event, exc |-> m.exc, deferred |-> FALSE,
                 raised |-> m.raised, statuses |-> m.statuses,
                 unawaited |-> m.unawaited, execEnv |-> m.execEnv]

AddSuperuser ==
    \E username \in Usernames, email \in Emails, seed \in Seeds,
       outcome \in (IF canConnect[background_service_name] /\ takahe_env.exc = "none"
                    THEN SuperuserOutcomes ELSE { "ok" }) :
        LET done == on_add_superuser_action(username, email, seed, outcome)
        IN  /\ UNCHANGED << inputVars, delivered >>
            /\ IF done.run.exc = "none"
               THEN /\ actionResult' = done.result
                    /\ Commit(done.run, "add_superuser_action")
               ELSE /\ actionResult' = Failed("exit status 1")
                    /\ ActionCrashed(done.run, "add_superuser_action")

(***************************************************************************)
(* The environment: what Juju, the other replicas and the supervisor do    *)
(* between two hooks.                                                      *)
(***************************************************************************)
EnvStep ==
    [ event |-> "environment", exc |-> "none", deferred |-> FALSE,
      raised |-> << >>, statuses |-> << >>, unawaited |-> FALSE,
      execEnv |-> << >> ]

\* the call log, the handler's status, the collected statuses and the action
\* result describe a hook run: an environment step clears them
outputVars == << plan, active, unitStatus, deferred, version, delivered >>

NoHook ==
    /\ last' = EnvStep
    /\ calls' = << >>
    /\ handlerStatus' = Unset
    /\ collected' = << >>
    /\ actionResult' = NoAction
    /\ UNCHANGED outputVars

\* a step that changes no input of the reconciler, and one that does
InputsKept == NoHook /\ reconciled' = reconciled
InputsChanged == NoHook /\ reconciled' = NoRuns

LeadershipChanges ==
    /\ leader' = ~leader
    /\ InputsKept
    /\ UNCHANGED << peers, peerData, secrets, config, storages, database,
                    ingressReady, canConnect >>

PeerRelationForms ==
    /\ ~peers
    /\ peers' = TRUE
    /\ InputsChanged
    /\ UNCHANGED << leader, peerData, secrets, config, storages, database,
                    ingressReady, canConnect >>

\* the leader is another replica: it publishes the id of the secret it
\* created, which this replica cannot resolve
PeerLeaderPublishes ==
    /\ ~leader
    /\ peers
    /\ FreeIds # {}
    /\ peerData' = ("secret-id" :> NewSecretId)
    /\ InputsChanged
    /\ UNCHANGED << leader, peers, secrets, config, storages, database,
                    ingressReady, canConnect >>

\* juju config: the main domain is set to another value
ConfigChanges ==
    \E domain \in { "example.com", "aotearoa.dev" } \ { config["main-domain"] } :
        /\ config' = Config(config["media-uri"], domain)
        /\ InputsChanged
        /\ UNCHANGED << leader, peers, peerData, secrets, storages, database,
                        ingressReady, canConnect >>

SupervisorChanges ==
    \E name \in Containers :
        /\ canConnect' = [canConnect EXCEPT ![name] = ~@]
        /\ InputsKept
        /\ UNCHANGED << leader, peers, peerData, secrets, config, storages,
                        database, ingressReady >>

(***************************************************************************)
(* Initial states.                                                         *)
(***************************************************************************)
NoDatabase ==
    [relation |-> FALSE, credentials |-> NoData, latest |-> NoData, endpoints |-> ""]
DatabaseJoined ==
    [ relation |-> TRUE, credentials |-> NoData, latest |-> NoData,
      endpoints |-> "db.local:8000" ]
DatabaseReady ==
    [ relation |-> TRUE,
      credentials |-> [username |-> "USER", password |-> "PASS"],
      latest |-> [username |-> "USER", password |-> "PASS"],
      endpoints |-> "db.local:8000" ]

\* the database application is related, and publishes the credentials secret
\* and the endpoints
DatabaseChanges ==
    /\ database \in { NoDatabase, DatabaseJoined }
    /\ database' = (IF database = NoDatabase THEN DatabaseJoined ELSE DatabaseReady)
    /\ InputsChanged
    /\ UNCHANGED << leader, peers, peerData, secrets, config, storages,
                    ingressReady, canConnect >>

\* the database application rotates the password: the secret gets a new
\* revision.  This unit goes on tracking the revision it has read, unless a
\* reader of the secret has asked for a refresh (refreshed)
CredentialsRotate ==
    \E refreshed \in BOOLEAN :
        /\ database = DatabaseReady
        /\ database' =
               [database EXCEPT
                   !.latest = [username |-> "USER", password |-> "ROTATED"],
                   !.credentials = IF refreshed
                                   THEN [username |-> "USER", password |-> "ROTATED"]
                                   ELSE @]
        /\ InputsChanged
        /\ UNCHANGED << leader, peers, peerData, secrets, config, storages,
                        ingressReady, canConnect >>

\* a service of another layer
OtherService ==
    [override |-> "replace", summary |-> "log agent", command |-> "promtail", startup |-> "enabled"]

InitOutputs ==
    /\ active = [name \in Containers |-> FALSE]
    /\ unitStatus = [name |-> "unknown", message |-> ""]
    /\ handlerStatus = Unset
    /\ collected = << >>
    /\ deferred = {}
    /\ calls = << >>
    /\ actionResult = NoAction
    /\ version = ""
    /\ reconciled = NoRuns
    /\ last = [EnvStep EXCEPT !.event = "none"]

\* a new deployment: no secret exists, the workload's inputs are in place
InitSecret ==
    /\ leader \in BOOLEAN
    /\ peers \in BOOLEAN
    /\ peerData = NoData
    /\ secrets = [id \in SecretIds |-> << >>]
    /\ config = Config(S3_SCHEME \o << "b" >>, "aotearoa.dev")
    /\ storages = [name \in StorageNames |-> 1]
    /\ database = DatabaseReady
    /\ ingressReady = TRUE
    /\ canConnect \in [Containers -> BOOLEAN]
    /\ plan = [name \in Containers |-> NoData]
    /\ delivered = {}
    /\ InitOutputs

NextSecret ==
    \/ Install
    \/ PeerRelationCreated
    \/ CycleSecretKey
    \/ LeadershipChanges
    \/ PeerRelationForms
    \/ PeerLeaderPublishes

SpecSecret == InitSecret /\ [][NextSecret]_vars

\* a deployment past its install: the shared secret is published and
\* resolvable, or the peer relation has not formed; the containers hold no
\* plan yet, or the service of another layer
InitReconcile ==
    /\ leader = TRUE
    /\ peers \in BOOLEAN
    /\ peerData = (IF peers THEN ("secret-id" :> 1) ELSE NoData)
    /\ secrets = [id \in SecretIds |->
                    IF peers /\ id = 1
                    THEN << SecretContent(generate_secret_key(DefaultKeyLength, 1)) >>
                    ELSE << >>]
    /\ config = Config(LOCAL_SCHEME, "aotearoa.dev")
    /\ storages = [name \in StorageNames |-> 1]
    /\ database = DatabaseReady
    /\ ingressReady = TRUE
    /\ canConnect = [name \in Containers |-> FALSE]
    /\ plan \in { [name \in Containers |-> NoData],
                  [name \in Containers |-> ("log-agent" :> OtherService)] }
    /\ delivered = { "install", "takahe_peer_relation_created" }
    /\ InitOutputs

Next ==
    \/ PebbleReady
    \/ ConfigChanges
    \/ SupervisorChanges

Spec == InitReconcile /\ [][Next]_vars

\* every reconcile handler, over a deployment whose inputs are valid: the
\* supervisors come and go, the services start or fail to start
InitHandlers ==
    /\ leader = TRUE
    /\ peers = TRUE
    /\ peerData = ("secret-id" :> 1)
    /\ secrets = [id \in SecretIds |->
                    IF id = 1
                    THEN << SecretContent(generate_secret_key(DefaultKeyLength, 1)) >>
                    ELSE << >>]
    /\ config = Config(LOCAL_SCHEME, "aotearoa.dev")
    /\ storages = [name \in StorageNames |-> 1]
    /\ database = DatabaseReady
    /\ ingressReady = TRUE
    /\ canConnect \in [Containers -> BOOLEAN]
    /\ plan = [name \in Containers |-> NoData]
    /\ delivered = { "install", "takahe_peer_relation_created" }
    /\ InitOutputs

NextHandlers ==
    \/ PebbleReady
    \/ ResetServices
    \/ UpgradeCharm
    \/ DatabaseCreated
    \/ SupervisorChanges

SpecHandlers == InitHandlers /\ [][NextHandlers]_vars

\* key rotation: the operator cycles the key, Juju delivers secret-changed
\* (or another reconcile trigger), the supervisors come and go
InitRotate ==
    /\ InitHandlers
    /\ canConnect = [name \in Containers |-> TRUE]

NextRotate ==
    \/ CycleSecretKey
    \/ ResetServices
    \/ SupervisorChanges

SpecRotate == InitRotate /\ [][NextRotate]_vars

\* the add-superuser action over a deployment past its install: the
\* containers become ready, the supervisors come and go, the operator runs
\* the action
InitAction ==
    /\ leader = TRUE
    /\ peers \in BOOLEAN
    /\ peerData = (IF peers THEN ("secret-id" :> 1) ELSE NoData)
    /\ secrets = [id \in SecretIds |->
                    IF peers /\ id = 1
                    THEN << SecretContent(generate_secret_key(DefaultKeyLength, 1)) >>
                    ELSE << >>]
    /\ config = Config(LOCAL_SCHEME, "aotearoa.dev")
    /\ storages = [name \in StorageNames |-> 1]
    /\ database = DatabaseReady
    /\ ingressReady = TRUE
    /\ canConnect \in [Containers -> BOOLEAN]
    /\ plan = [name \in Containers |-> NoData]
    /\ delivered = { "install", "takahe_peer_relation_created" }
    /\ InitOutputs

NextAction ==
    \/ AddSuperuser
    \/ PebbleReady
    \/ SupervisorChanges

SpecAction == InitAction /\ [][NextAction]_vars

\* the database binding over the life of the relation: it is joined, the
\* credentials arrive and are rotated, and each reconcile trigger composes
\* the environment again
InitDatabase ==
    /\ leader = TRUE
    /\ peers = TRUE
    /\ peerData = ("secret-id" :> 1)
    /\ secrets = [id \in SecretIds |->
                    IF id = 1
                    THEN << SecretContent(generate_secret_key(DefaultKeyLength, 1)) >>
                    ELSE << >>]
    /\ config = Config(S3_SCHEME \o << "b" >>, "aotearoa.dev")
    /\ storages = [name \in StorageNames |-> 1]
    /\ database \in { NoDatabase, DatabaseReady }
    /\ ingressReady = TRUE
    /\ canConnect = [name \in Containers |-> TRUE]
    /\ plan = [name \in Containers |-> NoData]
    /\ delivered = { "install", "takahe_peer_relation_created" }
    /\ InitOutputs

NextDatabase ==
    \/ PebbleReady
    \/ ResetServices
    \/ DatabaseChanges
    \/ CredentialsRotate

SpecDatabase == InitDatabase /\ [][NextDatabase]_vars

\* a transient outage: no supervisor answers at first, each comes back and
\* stays; the dispatcher re-delivers a deferred event until a run of its
\* handler does not defer it, so a run in which no supervisor call fails
\* eventually happens once the supervisor is back
SupervisorRecovers ==
    \E name \in Containers :
        /\ ~canConnect[name]
        /\ canConnect' = [canConnect EXCEPT ![name] = TRUE]
        /\ InputsKept
        /\ UNCHANGED << leader, peers, peerData, secrets, config, storages,
                        database, ingressReady >>

Redelivered(name) ==
    /\ PebbleReady
    /\ last'.event = PebbleReadyEvent(name)
    /\ last'.raised = << >>

\* the shared secret is published; no supervisor answers
InitOutage ==
    /\ InitReconcile
    /\ peers

NextOutage ==
    \/ PebbleReady
    \/ SupervisorRecovers

SpecOutage ==
    /\ InitOutage
    /\ [][NextOutage]_vars
    /\ WF_vars(SupervisorRecovers)
    /\ \A name \in Containers : WF_vars(Redelivered(name))

\* the storage mappings: each name is unknown, known with nothing attached,
\* or attached
StorageMappings ==
    UNION { [names -> 0 .. 1] : names \in SUBSET StorageNames }

\* the peer relation and the shared secret: no relation, no id published, an
\* id that does not resolve, an id that resolves
PeerStates ==
    { [peers |-> FALSE, peerData |-> NoData, key |-> << >>],
      [peers |-> TRUE, peerData |-> NoData, key |-> << >>],
      [peers |-> TRUE, peerData |-> ("secret-id" :> 1), key |-> << >>],
      [peers |-> TRUE, peerData |-> ("secret-id" :> 1),
       key |-> << SecretContent(generate_secret_key(DefaultKeyLength, 1)) >>] }

\* the environment composer over its inputs: every media-uri, storage
\* mapping, peer and secret state, with and without the database binding;
\* pebble-ready composes the environment and submits it
InitCompose ==
    /\ leader = TRUE
    /\ \E p \in PeerStates :
          /\ peers = p.peers
          /\ peerData = p.peerData
          /\ secrets = [id \in SecretIds |-> IF id = 1 THEN p.key ELSE << >>]
    /\ config \in { Config(media, "aotearoa.dev") : media \in MediaUris }
    /\ storages \in StorageMappings
    /\ database \in { NoDatabase, DatabaseReady }
    /\ ingressReady = TRUE
    /\ canConnect = [name \in Containers |-> TRUE]
    /\ plan = [name \in Containers |-> NoData]
    /\ delivered = { "install", "takahe_peer_relation_created" }
    /\ InitOutputs

NextCompose == PebbleReady

SpecCompose == InitCompose /\ [][NextCompose]_vars

(***************************************************************************)
(* The status aggregator over its inputs: a hook the charm does not        *)
(* observe (start, update-status) runs no handler, and the framework       *)
(* evaluates collect-status after it.                                      *)
(***************************************************************************)
Unhandled ==
    \E event \in { "start", "update_status" } :
        /\ UNCHANGED << inputVars, delivered >>
        /\ actionResult' = NoAction
        /\ Commit(Begin, event)

InitStatus ==
    /\ leader \in BOOLEAN
    /\ \E p \in PeerStates :
          /\ peers = p.peers
          /\ peerData = p.peerData
          /\ secrets = [id \in SecretIds |-> IF id = 1 THEN p.key ELSE << >>]
    /\ config \in { Config(media, domain) : media \in MediaUris, domain \in MainDomains }
    /\ storages \in StorageMappings
    /\ database \in { NoDatabase, DatabaseJoined, DatabaseReady }
    /\ ingressReady \in BOOLEAN
    /\ canConnect = [name \in Containers |-> FALSE]
    /\ plan = [name \in Containers |-> NoData]
    /\ delivered = { "install" }
    /\ InitOutputs

NextStatus == Unhandled

SpecStatus == InitStatus /\ [][NextStatus]_vars

(***************************************************************************)
(* Properties.                                                             *)
(***************************************************************************)
Range(seq) == { seq[i] : i \in 1 .. Len(seq) }

\* the supervisor calls of the last hook that change a plan
PlanCalls == { c \in Range(calls) : c.op \in {"add_layer", "replan"} }

SecretEvents == { "install", "takahe_peer_relation_created" }
CycleEvent == "cycle_secret_key_action"

\* the secrets that exist in the store
Created == { id \in SecretIds : secrets[id] # << >> }

UppercaseAndDigits ==
    { "A", "B", "C", "D", "E", "F", "G", "H", "I", "J", "K", "L", "M",
      "N", "O", "P", "Q", "R", "S", "T", "U", "V", "W", "X", "Y", "Z",
      "0", "1", "2", "3", "4", "5", "6", "7", "8", "9" }

\* C4: cycle-secret-key on a non-leader replica fails with the message that
\* names the leader, whatever the peer, secret and container state is, and
\* changes nothing: no revision is added, the peer data is not written, no
\* plan is touched and no result is set.
C4_NonLeaderCycleFails ==
    [][ (last'.event = CycleEvent /\ ~leader) =>
            /\ actionResult'.status = "failed"
            /\ actionResult'.message = "Please run this action on the leader unit."
            /\ actionResult'.results = NoData
            /\ secrets' = secrets
            /\ peerData' = peerData
            /\ plan' = plan
            /\ active' = active
            /\ calls' = << >> ]_vars

\* a non-leader, with the secret published and resolvable, has run the action
C4_Witness ==
    /\ last.event = CycleEvent
    /\ ~leader
    /\ peers
    /\ "secret-id" \in DOMAIN peerData
    /\ SecretFound(peerData["secret-id"])
    /\ actionResult.status = "failed"
    /\ \E name \in Containers : canConnect[name]

\* C5: on the leader, with the secret-id published and the secret
\* resolvable, cycle-secret-key adds exactly one revision to that secret,
\* which differs from every earlier one; the earlier revisions are kept, the
\* other secrets and the published id are unchanged, the result is
\* {result: success} and no plan is touched.
C5_CycleAddsOneRevision ==
    [][ (last'.event = CycleEvent /\ leader /\ peers
            /\ "secret-id" \in DOMAIN peerData
            /\ SecretFound(peerData["secret-id"])) =>
            LET id == peerData["secret-id"]
                n == Len(secrets[id])
            IN  /\ Len(secrets'[id]) = n + 1
                /\ SubSeq(secrets'[id], 1, n) = secrets[id]
                /\ \A r \in 1 .. n : secrets'[id][n + 1] # secrets[id][r]
                /\ (n = 1 => Len(secrets'[id]) = 2 /\ secrets'[id][1] # secrets'[id][2])
                /\ \A other \in SecretIds \ {id} : secrets'[other] = secrets[other]
                /\ peerData' = peerData
                /\ actionResult' = [status |-> "completed", message |-> "",
                                    results |-> [result |-> "success"]]
                /\ plan' = plan
                /\ { c \in Range(calls') : c.op \in {"add_layer", "replan"} } = {} ]_vars

\* the action has run on the leader and the secret holds two revisions
C5_Witness ==
    /\ last.event = CycleEvent
    /\ leader
    /\ actionResult.status = "completed"
    /\ "secret-id" \in DOMAIN peerData
    /\ Len(secrets[peerData["secret-id"]]) = 2
    /\ secrets[peerData["secret-id"]][1] # secrets[peerData["secret-id"]][2]

\* C6: cycle-secret-key checks leader, peer relation, published secret-id
\* and resolvable secret in this order and fails with the reason of the first
\* that does not hold; a failed action changes no secret and returns no result.
C6_CyclePreconditionOrder ==
    [][ last'.event = CycleEvent =>
            /\ ~leader =>
                  actionResult'.message = "Please run this action on the leader unit."
            /\ (leader /\ ~peers) =>
                  actionResult'.message = "No need to cycle - we haven't even started up!"
            /\ (leader /\ peers /\ "secret-id" \notin DOMAIN peerData) =>
                  actionResult'.message =
                      "No need to cycle - have not created the initial secret yet!"
            /\ (leader /\ peers /\ "secret-id" \in DOMAIN peerData
                   /\ ~SecretFound(peerData["secret-id"])) =>
                  actionResult'.message =
                      "No need to cycle - initial secret making in progress!"
            /\ ~(leader /\ peers /\ "secret-id" \in DOMAIN peerData
                   /\ SecretFound(peerData["secret-id"])) =>
                  actionResult'.status = "failed"
            /\ actionResult'.status = "failed" =>
                  /\ secrets' = secrets
                  /\ actionResult'.results = NoData ]_vars

\* the leader has run the action while the published id does not resolve
C6_Witness ==
    /\ last.event = CycleEvent
    /\ leader
    /\ peers
    /\ "secret-id" \in DOMAIN peerData
    /\ ~SecretFound(peerData["secret-id"])
    /\ actionResult.message = "No need to cycle - initial secret making in progress!"

\* C7: on the leader with the peer relation present, install and
\* peer-relation-created create a secret whose content holds
\* takahe-secret-key with a 128-character value over uppercase letters and
\* digits, and publish exactly that secret's id as secret-id.
C7_LeaderCreatesSecret ==
    [][ (last'.event \in SecretEvents /\ leader /\ peers) =>
            \E id \in SecretIds :
                /\ secrets[id] = << >>
                /\ Len(secrets'[id]) = 1
                /\ DOMAIN secrets'[id][1] = {"takahe-secret-key"}
                /\ Len(secrets'[id][1]["takahe-secret-key"]) = 128
                /\ Range(secrets'[id][1]["takahe-secret-key"]) \subseteq UppercaseAndDigits
                /\ \A other \in SecretIds \ {id} : secrets'[other] = secrets[other]
                /\ "secret-id" \in DOMAIN peerData'
                /\ peerData'["secret-id"] = id ]_vars

\* the leader has handled install and the published id resolves to a key
C7_Witness ==
    /\ last.event = "install"
    /\ leader
    /\ peers
    /\ "secret-id" \in DOMAIN peerData
    /\ SecretFound(peerData["secret-id"])
    /\ Len(LatestContent(peerData["secret-id"])["takahe-secret-key"]) = 128

\* C8: the shared secret key is created once: whatever install and
\* peer-relation-created events the leader handles, at most one secret is
\* ever created, and a published secret-id is not replaced.
C8_SecretCreatedOnce ==
    [][ (last'.event \in SecretEvents /\ leader) =>
            /\ Cardinality({ id \in SecretIds : secrets'[id] # << >> }) <= 1
            /\ "secret-id" \in DOMAIN peerData => peerData' = peerData ]_vars

\* C9: a non-leader replica treats the shared secret as read-only: install,
\* peer-relation-created and cycle-secret-key on a non-leader create no
\* secret, change no secret content and write nothing to the peer data.
C9_NonLeaderReadOnly ==
    [][ (last'.event \in SecretEvents \cup {CycleEvent} /\ ~leader) =>
            /\ secrets' = secrets
            /\ peerData' = peerData ]_vars

\* a non-leader has handled peer-relation-created and no secret exists
C9_Witness ==
    /\ last.event = "takahe_peer_relation_created"
    /\ ~leader
    /\ peers
    /\ peerData = NoData
    /\ Created = {}

\* C1: for either container, with the supervisor reachable and a plan that
\* is empty or holds only the container's own service, consecutive _replan
\* calls with unchanged inputs submit the layer (add_layer and replan) at most
\* once in total, and a call that is not the first of them submits nothing.
C1_ReplanIdempotent ==
    \A name \in Containers :
        (reconciled[name].runs = 2 /\ reconciled[name].ownOnly) =>
            /\ reconciled[name].applies <= 1
            /\ last.event = PebbleReadyEvent(name) =>
                  { c \in PlanCalls : c.container = name } = {}

\* a second call has run after a first one that submitted the layer
C1_Witness ==
    \E name \in Containers :
        /\ reconciled[name].runs = 2
        /\ reconciled[name].ownOnly
        /\ reconciled[name].applies = 1
        /\ last.event = PebbleReadyEvent(name)
        /\ PlanCalls = {}
        /\ takahe_env.env # NoData
        /\ plan[name] = NewServices(name, takahe_env.env)

\* C2: when the supervisor of a container is unreachable during the
\* reconcile of its pebble-ready event (get_plan raises ConnectionError), the
\* handler defers that event and performs no add_layer and no replan: the
\* plans are unchanged.
C2_UnreachableDefers ==
    [][ \A name \in Containers :
            (/\ last'.event = PebbleReadyEvent(name)
             /\ ~canConnect[name]
             /\ Call("get_plan", name) \in Range(calls')) =>
                /\ last'.deferred
                /\ last'.exc = "none"
                /\ PebbleReadyEvent(name) \in deferred'
                /\ { c \in Range(calls') : c.op \in {"add_layer", "replan"} } = {}
                /\ plan' = plan
                /\ active' = active ]_vars

\* pebble-ready of the web container has been deferred for an unreachable
\* supervisor
C2_Witness ==
    /\ last.event = PebbleReadyEvent(web_service_name)
    /\ ~canConnect[web_service_name]
    /\ last.deferred
    /\ PebbleReadyEvent(web_service_name) \in deferred
    /\ handlerStatus = WaitingStatus("Unable to connect to takahe-web")
    /\ calls = << Call("get_plan", web_service_name) >>

\* C3: when the supervisor is unreachable during reconcile, the unit status
\* surfaced after the hook (after the collect-status evaluation that follows
\* the handler) is Waiting "Unable to connect to <container name>".
C3_UnableToConnectSurfaced ==
    \A name \in Containers :
        (/\ last.event = PebbleReadyEvent(name)
         /\ last.exc = "none"
         /\ ~canConnect[name]
         /\ Call("get_plan", name) \in Range(calls)) =>
            unitStatus = WaitingStatus("Unable to connect to " \o name)

\* C10: the status aggregator does not short-circuit: whatever the config,
\* storage, peer, secret, database and ingress state, the collected statuses
\* hold an entry of each failing check (media-uri scheme, main domain,
\* storage, peer secret, database binding, ingress) and none of a check that
\* passes.
MediaCheckFails ==
    ~ \E scheme \in { LOCAL_SCHEME, S3_SCHEME, GCS_SCHEME } :
          StartsWith(config["media-uri"], scheme)
DomainCheckFails == config["main-domain"] \in { "", "example.com" }
StorageCheckFails ==
    \/ "media-cache" \notin DOMAIN storages
    \/ config["media-uri"] = LOCAL_SCHEME /\ "local-media" \notin DOMAIN storages
PeerCheckFails ==
    \/ ~peers
    \/ "secret-id" \notin DOMAIN peerData
    \/ secrets[peerData["secret-id"]] = << >>
DatabaseCheckFails == ~database.relation \/ database.credentials = NoData
IngressCheckFails == ~ingressReady

Holds(name, messages) ==
    \E i \in 1 .. Len(collected) :
        collected[i].name = name /\ collected[i].message \in messages

C10_NoShortCircuit ==
    (last.event \notin { "none", "environment" } /\ last.exc = "none") =>
        /\ collected[1] = [name |-> "active", message |-> ""]
        /\ MediaCheckFails <=> Holds("blocked", { "Invalid 'media-uri' config value." })
        /\ DomainCheckFails <=>
              Holds("blocked", { "Please set the main domain with juju config",
                                 "example.com is not a valid main domain" })
        /\ StorageCheckFails <=>
              Holds("waiting", { "Waiting for storage", "Waiting for media-cache",
                                 "Waiting for local-media" })
        /\ PeerCheckFails <=>
              \/ Holds("blocked", { "Waiting for peer secrets", "Waiting for secret key" })
              \/ Holds("waiting", { "Waiting for peer relation" })
        /\ DatabaseCheckFails <=> Holds("blocked", { "Waiting for database relation" })
        /\ IngressCheckFails <=> Holds("waiting", { "Waiting for ingress." })

\* all six checks fail at once and each has its entry
C10_Witness ==
    /\ last.event = "update_status"
    /\ MediaCheckFails
    /\ DomainCheckFails
    /\ StorageCheckFails
    /\ PeerCheckFails
    /\ DatabaseCheckFails
    /\ IngressCheckFails
    /\ Len(collected) = 7

\* C11: in the empty state (no peer relation, no database relation, ingress
\* not ready, main-domain unset) the collected statuses include 'Waiting for
\* peer relation', 'Waiting for database relation', 'Waiting for ingress.' and
\* the blocked entry about the main domain, and the status surfaced for the
\* unit is blocked, on the leader and on a non-leader.
EmptyState ==
    /\ ~peers
    /\ ~database.relation
    /\ ~ingressReady
    /\ config["main-domain"] = ""

C11_EmptyStateBlocked ==
    (last.event \in { "start", "update_status" } /\ EmptyState) =>
        /\ Holds("waiting", { "Waiting for peer relation" })
        /\ Holds("blocked", { "Waiting for database relation" })
        /\ Holds("waiting", { "Waiting for ingress." })
        /\ Holds("blocked", { "Please set the main domain with juju config" })
        /\ unitStatus.name = "blocked"

\* a non-leader in the empty state has handled start
C11_Witness ==
    /\ last.event = "start"
    /\ EmptyState
    /\ ~leader
    /\ unitStatus = BlockedStatus("Please set the main domain with juju config")

\* C12: in a full valid state (secret-id published and resolvable, database
\* binding resolvable, main-domain set and not example.com, media-uri
\* local://, storage attached, ingress ready) the status aggregator adds no
\* blocked and no waiting entry, and the surfaced status is active.
FullValidState ==
    /\ peers
    /\ "secret-id" \in DOMAIN peerData
    /\ secrets[peerData["secret-id"]] # << >>
    /\ database.relation
    /\ database.credentials # NoData
    /\ config["main-domain"] \notin { "", "example.com" }
    /\ config["media-uri"] = << "l", "o", "c", "a", "l", ":", "/", "/" >>
    /\ \A name \in StorageNames : name \in DOMAIN storages /\ storages[name] >= 1
    /\ ingressReady

C12_FullValidActive ==
    (last.event \in { "start", "update_status" } /\ FullValidState) =>
        /\ \A i \in 1 .. Len(collected) : collected[i].name \notin { "blocked", "waiting" }
        /\ collected = << [name |-> "active", message |-> ""] >>
        /\ unitStatus = [name |-> "active", message |-> ""]

\* update-status has been handled in a full valid state
C12_Witness ==
    /\ last.event = "update_status"
    /\ FullValidState
    /\ unitStatus.name = "active"

\* C13: after pebble-ready, secret-changed, config-changed, upgrade-charm or
\* database-created has been handled with the supervisor reachable and valid
\* inputs, and no supervisor call failed in the run, the plan of every
\* container the handler reconciles equals exactly the desired layer (one
\* service named after the container, override replace, the descriptor's
\* summary and command, startup enabled, the composed environment), and that
\* service is active.
ReconciledBy(event) ==
    IF event = "takahe_web_pebble_ready" THEN { "takahe-web" }
    ELSE IF event = "takahe_background_pebble_ready" THEN { "takahe-background" }
    ELSE IF event \in { "secret_changed", "config_changed", "upgrade_charm",
                        "database_created" }
    THEN { "takahe-web", "takahe-background" }
    ELSE { }

DesiredServices(name) ==
    (name :> [ override |-> "replace",
               summary |-> container_details(name).summary,
               command |-> container_details(name).command,
               startup |-> "enabled",
               environment |-> takahe_env.env ])

C13_PlanIsDesiredLayer ==
    (/\ last.exc = "none"
     /\ last.raised = << >>
     /\ FullValidState
     /\ \A name \in ReconciledBy(last.event) : canConnect[name]) =>
        \A name \in ReconciledBy(last.event) :
            /\ plan[name] = DesiredServices(name)
            /\ active[name]

\* C14: the key set of the composed environment is empty when no shared
\* secret key is available (peer relation absent, secret-id not published,
\* or secret not found); otherwise it is exactly TAKAHE_DATABASE_SERVER,
\* TAKAHE_SECRET_KEY, TAKAHE_MEDIA_BACKEND, TAKAHE_MAIN_DOMAIN,
\* TAKAHE_EMAIL_FROM, TAKAHE_AUTO_ADMIN_EMAIL and TAKAKE_USE_PROXY_HEADERS
\* (fixed 'True'), plus TAKAHE_MEDIA_ROOT and TAKAHE_MEDIA_URL if and only if
\* the media backend is local.
SecretKeyAvailable ==
    /\ peers
    /\ "secret-id" \in DOMAIN peerData
    /\ secrets[peerData["secret-id"]] # << >>

FixedKeys ==
    { "TAKAHE_DATABASE_SERVER", "TAKAHE_SECRET_KEY", "TAKAHE_MEDIA_BACKEND",
      "TAKAHE_MAIN_DOMAIN", "TAKAHE_EMAIL_FROM", "TAKAHE_AUTO_ADMIN_EMAIL",
      "TAKAKE_USE_PROXY_HEADERS" }

MediaBackendIsLocal ==
    StartsWith(config["media-uri"], << "l", "o", "c", "a", "l", ":", "/", "/" >>)

\* the environment submitted with the service of a container
SubmittedEnv(name) ==
    IF "environment" \in DOMAIN plan[name][name]
    THEN plan[name][name].environment
    ELSE << >>

C14_EnvKeySet ==
    \A name \in Containers :
        (/\ last.event = PebbleReadyEvent(name)
         /\ last.exc = "none"
         /\ Call("add_layer", name) \in Range(calls)) =>
            IF ~SecretKeyAvailable
            THEN DOMAIN SubmittedEnv(name) = { }
            ELSE /\ DOMAIN SubmittedEnv(name) =
                       FixedKeys \cup (IF MediaBackendIsLocal
                                       THEN { "TAKAHE_MEDIA_ROOT", "TAKAHE_MEDIA_URL" }
                                       ELSE { })
                 /\ SubmittedEnv(name).TAKAKE_USE_PROXY_HEADERS = "True"

\* C15: after a successful cycle-secret-key followed by a secret-changed
\* that was handled with the supervisors reachable, the TAKAHE_SECRET_KEY of
\* the plan of both containers is the new key, never a prior revision.
SharedSecret == secrets[peerData["secret-id"]]

Cycled == Len(SharedSecret) > 1

C15_RotatedKeyInPlans ==
    (/\ last.event = "secret_changed"
     /\ last.exc = "none"
     /\ ~last.deferred
     /\ Cycled) =>
        \A name \in Containers :
            /\ SubmittedEnv(name).TAKAHE_SECRET_KEY =
                   SharedSecret[Len(SharedSecret)]["takahe-secret-key"]
            /\ \A r \in 1 .. Len(SharedSecret) - 1 :
                   SubmittedEnv(name).TAKAHE_SECRET_KEY #
                       SharedSecret[r]["takahe-secret-key"]

C15_Witness ==
    /\ last.event = "secret_changed"
    /\ last.exc = "none"
    /\ ~last.deferred
    /\ Cycled
    /\ \A name \in Containers :
           /\ Call("add_layer", name) \in Range(calls)
           /\ SubmittedEnv(name).TAKAHE_SECRET_KEY =
                  SharedSecret[Len(SharedSecret)]["takahe-secret-key"]

\* C16: if the migration command fails in upgrade-charm or database-created,
\* the failure is surfaced as a blocked status and the reconcile is aborted:
\* neither container receives add_layer or replan.
MigrationEvents == { "upgrade_charm", "database_created" }

MigrationFailed ==
    /\ last.event \in MigrationEvents
    /\ \E i \in 1 .. Len(last.raised) : last.raised[i].op = "wait migrate"

C16_MigrationFailureAborts ==
    MigrationFailed =>
        /\ last.exc = "none"
        /\ unitStatus.name = "blocked"
        /\ PlanCalls = { }

\* C17: when the migration succeeds in upgrade-charm or database-created,
\* the handler reconciles the background container and then the web
\* container, and no migration command is still running at any add_layer or
\* replan; on upgrade the statuses the handler sets are exactly Maintenance
\* 'Upgrading database tables...' then Maintenance 'Restarting service...',
\* and the event is not deferred.
Positions(op, container) ==
    { i \in 1 .. Len(calls) : calls[i] = Call(op, container) }

MigrationSucceeded ==
    /\ last.event \in MigrationEvents
    /\ last.exc = "none"
    /\ last.raised = << >>
    /\ Positions("wait migrate", background_service_name) # { }

\* the calls of the handler are in the order migrate, background, web
MigrateBackgroundWeb ==
    /\ \A w \in Positions("wait migrate", background_service_name) :
           /\ \A e \in Positions("exec migrate", background_service_name) : e < w
           /\ \A i \in 1 .. Len(calls) :
                  calls[i].op \in { "get_plan", "add_layer", "replan" } => w < i
    /\ \A b \in 1 .. Len(calls), w \in 1 .. Len(calls) :
           (/\ calls[b].container = background_service_name
            /\ calls[w].container = web_service_name) => b < w
    /\ Positions("get_plan", background_service_name) # { }
    /\ Positions("get_plan", web_service_name) # { }

UpgradeStatuses ==
    last.event = "upgrade_charm" =>
        last.statuses = << MaintenanceStatus("Upgrading database tables..."),
                           MaintenanceStatus("Restarting service...") >>

\* the part of C17 that the awaited command satisfies
MigrationSuccessPath ==
    MigrationSucceeded =>
        /\ MigrateBackgroundWeb
        /\ UpgradeStatuses
        /\ ~last.deferred

C17_MigrationBeforeReconcile ==
    MigrationSucceeded =>
        /\ MigrateBackgroundWeb
        /\ UpgradeStatuses
        /\ ~last.deferred
        /\ ~last.unawaited

\* C18: in every reconcile handler (pebble-ready, secret-changed,
\* config-changed, endpoints-changed, upgrade-charm, database-created) a
\* ConnectionError or a ChangeError raised while reconciling a container
\* defers the triggering event; a run without such a failure never defers it.
ReconcileEvents ==
    { PebbleReadyEvent(name) : name \in Containers } \cup ResetEvents \cup MigrationEvents

SupervisorFailure ==
    \E i \in 1 .. Len(last.raised) :
        last.raised[i].exc \in { "ConnectionError", "ChangeError" }

C18_FailureDefers ==
    last.event \in ReconcileEvents =>
        /\ SupervisorFailure => (last.deferred /\ last.event \in deferred)
        /\ ~SupervisorFailure => ~last.deferred

C18_Witness ==
    /\ last.event = "database_created"
    /\ \E i \in 1 .. Len(last.raised) :
           /\ last.raised[i].exc = "ChangeError"
           /\ last.raised[i].op = "replan"
    /\ last.deferred
    /\ "database_created" \in deferred

\* C19: no failure of a supervisor call (connection error, change error,
\* non-zero exit of the migration command or of the version command) escapes
\* a background event handler as an unhandled exception: each is caught in
\* the handler and turned into a waiting or blocked status with a request
\* for re-delivery (the version command's non-zero exit into the version
\* 'unknown').
VersionDegraded(failure) ==
    failure.op = "exec version" /\ failure.exc = "ExecError"

HandlerFailures ==
    { i \in 1 .. Len(last.raised) : ~VersionDegraded(last.raised[i]) }

C19_NoFailureEscapes ==
    last.event \in ReconcileEvents =>
        /\ last.exc = "none"
        /\ HandlerFailures # { } =>
               /\ last.deferred
               /\ \E i \in 1 .. Len(last.statuses) :
                      last.statuses[i].name \in { "waiting", "blocked" }

\* C20: reconcile queries the workload version only for the background
\* container; if that query fails for any reason, an unreachable supervisor
\* included, the workload version is set to 'unknown' and the reconcile
\* completes without raising and without deferring the event.
VersionQueries == { i \in 1 .. Len(calls) : calls[i].op = "exec version" }

\* the version query is the only supervisor call of the run that failed
OnlyVersionQueryFailed ==
    /\ last.raised # << >>
    /\ \A i \in 1 .. Len(last.raised) : last.raised[i].op = "exec version"

C20_VersionBestEffort ==
    last.event \in ReconcileEvents =>
        /\ \A i \in VersionQueries :
               /\ calls[i].container = background_service_name
               /\ Positions("get_plan", background_service_name) # { }
               /\ last.event # PebbleReadyEvent(web_service_name)
        /\ OnlyVersionQueryFailed =>
               /\ version = "unknown"
               /\ last.exc = "none"
               /\ ~last.deferred

\* C21: add-superuser runs the createsuperuser command on the background
\* container with a generated 32-character password in its environment; on
\* success the result 'initial-password' is that same password; on a
\* connection error the action fails with 'Unable to connect to container.'
\* and on an execution error with 'Unable to add user.', and in both failure
\* cases no initial-password is returned and no plan is changed.
SuperuserEvent == "add_superuser_action"

SuperuserFailedWith(step, exc) ==
    \E i \in 1 .. Len(step.raised) : step.raised[i].exc = exc

C21_AddSuperuser ==
    [][ last'.event = SuperuserEvent =>
            /\ calls' = << Call("exec createsuperuser", background_service_name) >>
            /\ Len(last'.execEnv.DJANGO_SUPERUSER_PASSWORD) = 32
            /\ Range(last'.execEnv.DJANGO_SUPERUSER_PASSWORD) \subseteq UppercaseAndDigits
            /\ \A k \in DOMAIN takahe_env.env : last'.execEnv[k] = takahe_env.env[k]
            /\ last'.raised = << >> =>
                   /\ actionResult'.status = "completed"
                   /\ actionResult'.results =
                          ("initial-password" :> last'.execEnv.DJANGO_SUPERUSER_PASSWORD)
            /\ SuperuserFailedWith(last', "ConnectionError") =>
                   /\ actionResult' = Failed("Unable to connect to container.")
                   /\ plan' = plan
            /\ SuperuserFailedWith(last', "ExecError") =>
                   /\ actionResult' = Failed("Unable to add user.")
                   /\ plan' = plan ]_vars

\* the action has succeeded on a container that holds a plan
C21_Witness ==
    /\ last.event = SuperuserEvent
    /\ last.raised = << >>
    /\ plan[background_service_name] # NoData
    /\ actionResult.status = "completed"
    /\ Len(actionResult.results["initial-password"]) = 32
    /\ actionResult.results["initial-password"] =
           last.execEnv.DJANGO_SUPERUSER_PASSWORD

\* C22: the database binding resolver returns the empty value exactly when
\* no database relation exists or the relation's credential secret is not
\* readable; otherwise it returns
\* postgresql://{username}:{password}@{endpoints}/takahe?connect_timeout=10
\* built from the values the relation and its secret hold at the time of the
\* call, so that the next composition after a credential change carries the
\* new credentials.
CurrentDsn ==
    IF ~database.relation \/ database.latest = NoData
    THEN ""
    ELSE "postgresql://" \o database.latest.username \o ":"
            \o database.latest.password \o "@" \o database.endpoints
            \o "/takahe?connect_timeout=10"

C22_DsnFromCurrentValues ==
    \A name \in Containers :
        (/\ last.event \in ReconcileEvents
         /\ last.exc = "none"
         /\ Call("add_layer", name) \in Range(calls)) =>
            SubmittedEnv(name).TAKAHE_DATABASE_SERVER = CurrentDsn

\* the part of C22 about the value the unit reads: empty exactly without a
\* relation or a readable secret, else the formatted string
DsnOfReadValues ==
    /\ dsn = "" <=> (~database.relation \/ database.credentials = NoData)
    /\ dsn # "" =>
           dsn = "postgresql://" \o database.credentials.username \o ":"
                    \o database.credentials.password \o "@" \o database.endpoints
                    \o "/takahe?connect_timeout=10"

\* C23: for every media-uri value whose scheme is not one of local://,
\* s3://, gcs:// the collected statuses include the blocked entry
\* 'Invalid 'media-uri' config value.'; for every value with one of these
\* schemes that entry is absent, whatever the other checks report.
InvalidMediaEntries ==
    { i \in 1 .. Len(collected) :
          collected[i] = [name |-> "blocked",
                          message |-> "Invalid 'media-uri' config value."] }

C23_MediaUriEntry ==
    (last.event \notin { "none", "environment" } /\ last.exc = "none") =>
        IF MediaCheckFails
        THEN Cardinality(InvalidMediaEntries) = 1
        ELSE InvalidMediaEntries = { }

\* an unrecognised scheme that shares a prefix with a recognised one is
\* reported, next to the entries of other failing checks
C23_Witness ==
    /\ last.event = "start"
    /\ config["media-uri"] = << "s", "3", ":", "/" >>
    /\ InvalidMediaEntries # { }
    /\ DomainCheckFails
    /\ IngressCheckFails
    /\ Len(collected) > 3

\* C24: recovery after a failed apply: if the replan of a reconcile fails
\* with ChangeError after the layer has been submitted and the event is
\* deferred, the re-delivery of the deferred event with unchanged inputs and
\* a reachable supervisor attempts the replan again.
ApplyFailed(step, name) ==
    /\ step.deferred
    /\ \E i \in 1 .. Len(step.raised) :
           step.raised[i] = [op |-> "replan", container |-> name, exc |-> "ChangeError"]

C24_RedeliveryReplans ==
    [][ \A name \in Containers :
            (/\ last.event = PebbleReadyEvent(name)
             /\ ApplyFailed(last, name)
             /\ last'.event = PebbleReadyEvent(name)
             /\ last'.exc = "none"
             /\ canConnect'[name]
             /\ ~active[name]) =>
                Call("replan", name) \in Range(calls') ]_vars

\* C25: convergence after a transient outage: if a reconcile is deferred
\* because the supervisor is unreachable, and the supervisor becomes
\* reachable and stays reachable while the deferred event is re-delivered
\* with the same inputs, then eventually the container's own service in the
\* plan equals the desired one and the re-delivered handler does not defer.
DeferredByOutage(name) ==
    /\ last.event = PebbleReadyEvent(name)
    /\ last.deferred
    /\ PebbleReadyEvent(name) \in deferred
    /\ \E i \in 1 .. Len(last.raised) :
           last.raised[i] = [op |-> "get_plan", container |-> name,
                             exc |-> "ConnectionError"]

OwnServiceDesired(name) ==
    /\ name \in DOMAIN plan[name]
    /\ plan[name][name] =
           IF takahe_env.env = NoData
           THEN [ override |-> "replace",
                  summary |-> container_details(name).summary,
                  command |-> container_details(name).command,
                  startup |-> "enabled" ]
           ELSE DesiredServices(name)[name]

ConvergedOn(name) ==
    /\ last.event = PebbleReadyEvent(name)
    /\ last.exc = "none"
    /\ ~last.deferred
    /\ PebbleReadyEvent(name) \notin deferred
    /\ canConnect[name]
    /\ OwnServiceDesired(name)

HoldsOtherServices(name) == DOMAIN plan[name] \ { name } # { }

C26_IdempotentBesideOtherServices ==
    [][ \A name \in Containers :
            (/\ last'.event = PebbleReadyEvent(name)
             /\ last'.exc = "none"
             /\ canConnect[name]
             /\ HoldsOtherServices(name)
             /\ OwnServiceDesired(name)) =>
                { c \in Range(calls') :
                      c.container = name /\ c.op \in { "add_layer", "replan" } } = { } ]_vars

\* C27: when reconcile submits a layer it changes only the plan entry of the
\* service named after the container: every other service already in that
\* container's plan is left unchanged, and the plan of the other container is
\* not touched.
C27_LayerChangesOwnServiceOnly ==
    [][ \A name \in Containers :
            last'.event = PebbleReadyEvent(name) =>
                /\ \A other \in Containers \ { name } : plan'[other] = plan[other]
                /\ DOMAIN plan'[name] \subseteq DOMAIN plan[name] \cup { name }
                /\ \A s \in DOMAIN plan[name] \ { name } :
                       /\ s \in DOMAIN plan'[name]
                       /\ plan'[name][s] = plan[name][s] ]_vars

\* a layer was submitted to a container that held the service of another
\* layer, while the other container holds a plan of its own
C27_Witness ==
    /\ last.event = PebbleReadyEvent(web_service_name)
    /\ Call("add_layer", web_service_name) \in Range(calls)
    /\ DOMAIN plan[web_service_name] = { "log-agent", web_service_name }
    /\ plan[web_service_name]["log-agent"].command = "promtail"
    /\ background_service_name \in DOMAIN plan[background_service_name]

\* C28: each upgrade-charm or database-created trigger invokes the migration
\* command on the background container exactly once and waits for that
\* invocation to finish before it reconciles any container.
MigrationSent ==
    /\ last.event \in MigrationEvents
    /\ Positions("wait migrate", background_service_name) # { }

C28_MigrationInvokedOnce ==
    MigrationSent =>
        /\ Cardinality(Positions("exec migrate", background_service_name)) = 1
        /\ Cardinality(Positions("wait migrate", background_service_name)) = 1
        /\ \A w \in Positions("wait migrate", background_service_name) :
               \A i \in 1 .. Len(calls) :
                   calls[i].op \in { "get_plan", "add_layer", "replan" } => w < i
        /\ ~last.unawaited

\* C29: whenever a handler that reconciles both containers (secret-changed,
\* config-changed, endpoints-changed, upgrade-charm, database-created) defers
\* its event because a step on the background container failed with
\* ConnectionError or ChangeError, the unit status the handler leaves when it
\* returns is a Waiting or Blocked status, never a Maintenance status.
TwoContainerEvents == ResetEvents \cup MigrationEvents

BackgroundStepFailed ==
    \E i \in 1 .. Len(last.raised) :
        /\ last.raised[i].container = background_service_name
        /\ last.raised[i].exc \in { "ConnectionError", "ChangeError" }

C29_DeferLeavesFailureStatus ==
    (/\ last.event \in TwoContainerEvents
     /\ last.exc = "none"
     /\ last.deferred
     /\ BackgroundStepFailed) =>
        handlerStatus.name \in { "waiting", "blocked" }

\* C30: in secret-changed, config-changed and endpoints-changed handling the
\* two containers are reconciled independently, background first: a
\* ConnectionError or ChangeError on the background container does not
\* prevent the reconcile (add_layer and replan) of a reachable web container
\* in the same handler run, and the event is deferred if at least one of the
\* two reconciles failed.
FailedIn(step) ==
    \E i \in 1 .. Len(step.raised) :
        step.raised[i].exc \in { "ConnectionError", "ChangeError" }

C30_ContainersReconciledIndependently ==
    [][ last'.event \in ResetEvents =>
            /\ calls'[1] = Call("get_plan", background_service_name)
            /\ Call("get_plan", web_service_name) \in Range(calls')
            /\ \A b \in 1 .. Len(calls'), w \in 1 .. Len(calls') :
                   (/\ calls'[b].container = background_service_name
                    /\ calls'[w].container = web_service_name) => b < w
            /\ (/\ canConnect[web_service_name]
                /\ plan[web_service_name] #
                       NewServices(web_service_name, takahe_env.env)) =>
                   /\ Call("add_layer", web_service_name) \in Range(calls')
                   /\ Call("replan", web_service_name) \in Range(calls')
            /\ last'.deferred <=> FailedIn(last') ]_vars

\* the background container failed and the web container was reconciled and
\* started in the same run, which deferred the event
C30_Witness ==
    /\ last.event = "secret_changed"
    /\ BackgroundStepFailed
    /\ ~canConnect[background_service_name]
    /\ Call("add_layer", web_service_name) \in Range(calls)
    /\ Call("replan", web_service_name) \in Range(calls)
    /\ active[web_service_name]
    /\ last.deferred

\* C31: when no shared secret key is available (the environment composer
\* returns the empty mapping), reconcile neither skips nor defers: with the
\* supervisor reachable it submits a layer whose service carries no
\* environment and triggers replan, so the service is started without
\* TAKAHE_SECRET_KEY and without a database DSN.
C31_ReconcilesWithoutKey ==
    [][ \A name \in Containers :
            (/\ last'.event = PebbleReadyEvent(name)
             /\ takahe_env = [exc |-> "none", env |-> NoData]
             /\ canConnect[name]
             /\ name \notin DOMAIN plan[name]) =>
                /\ Call("add_layer", name) \in Range(calls')
                /\ Call("replan", name) \in Range(calls')
                /\ name \in DOMAIN plan'[name]
                /\ "environment" \notin DOMAIN plan'[name][name]
                /\ ~FailedIn(last') =>
                       /\ ~last'.deferred
                       /\ PebbleReadyEvent(name) \notin deferred'
                       /\ active'[name] ]_vars

\* without a peer relation the service was submitted with no environment and
\* started, and the event was not deferred
C31_Witness ==
    /\ ~peers
    /\ last.event = PebbleReadyEvent(web_service_name)
    /\ ~last.deferred
    /\ calls = << Call("get_plan", web_service_name),
                  Call("add_layer", web_service_name),
                  Call("replan", web_service_name) >>
    /\ active[web_service_name]
    /\ DOMAIN plan[web_service_name][web_service_name] =
           { "override", "summary", "command", "startup" }

====
